---- MODULE Spec2Model ----
(***************************************************************************)
(* Model of parse_logs.py: the incremental log parser (LogParser) reading  *)
(* a growing text file, and the consumers of its improvements list.        *)
(*                                                                         *)
(* Text is modelled character by character: a text is a sequence of       *)
(* one-character strings, so that a read can end at any offset of a line.  *)
(* The regular expressions of LogParser.__init__ are matched character by  *)
(* character, with the outcome Python's backtracking matcher gives.        *)
(***************************************************************************)
EXTENDS Integers, Sequences, FiniteSets, TLC

(***************************************************************************)
(* Characters                                                              *)
(***************************************************************************)
NL == "\n"

Digits == {"0", "1", "2", "3", "4", "5", "6", "7", "8", "9"}

Letters ==
  {"a", "b", "c", "d", "e", "f", "g", "h", "i", "j", "k", "l", "m",
   "n", "o", "p", "q", "r", "s", "t", "u", "v", "w", "x", "y", "z",
   "A", "B", "C", "D", "E", "F", "G", "H", "I", "J", "K", "L", "M",
   "N", "O", "P", "Q", "R", "S", "T", "U", "V", "W", "X", "Y", "Z"}

\* \w of the re module (ASCII part): letters, digits and the underscore.
WordChars == Letters \cup Digits \cup {"_"}

\* \s of the re module, and the characters str.strip() removes.
Whitespace == {" ", "\t", "\r", "\f", NL}

\* A text literal of the source, as a sequence of characters.
GenText == <<"G", "e", "n">>
FitText == <<"F", "i", "t", ":">>
MeanText == <<"(", "m", "e", "a", "n", "=">>
VarText == <<"v", "a", "r", "=">>
P95Text == <<"p", "9", "5", "=">>
MaxText == <<"m", "a", "x", "=">>
Stars == <<"*", "*", "*">>
Assign == <<" ", "=", " ">>

(***************************************************************************)
(* Matching.  A span <<from, to>> is the text s[from .. to-1]; <<>> is a   *)
(* capture group that took no part in the match (None).                    *)
(***************************************************************************)
\* The text str stands in s at position i.
StartsAt(s, i, str) ==
  /\ i >= 1
  /\ i + Len(str) - 1 <= Len(s)
  /\ SubSeq(s, i, i + Len(str) - 1) = str

\* The number of consecutive characters of the set cs in s from position i.
RunLen(s, i, cs) ==
  LET stops == {j \in i..Len(s) : s[j] \notin cs}
  IN  IF stops = {} THEN Len(s) + 1 - i
      ELSE (CHOOSE j \in stops : \A x \in stops : j <= x) - i

\* The number of consecutive characters other than a newline ('.' of the re
\* module) in s from position i.
DotLen(s, i) ==
  LET stops == {j \in i..Len(s) : s[j] = NL}
  IN  IF stops = {} THEN Len(s) + 1 - i
      ELSE (CHOOSE j \in stops : \A x \in stops : j <= x) - i

\* num = r'(\d+(?:[.,]\d+)?)' at position i, d digits standing there: the
\* position after the longest match, 0 when s has no digit at i.  Wherever
\* the patterns use num, what follows (.*?, \s, '(', ',' then a letter, or
\* the pattern's end) lets no shorter match of num succeed where the
\* longest fails.
NumEndAfter(s, i, d) ==
  IF i < 1 \/ d = 0 THEN 0
  ELSE IF /\ i + d <= Len(s)
          /\ s[i + d] \in {".", ","}
          /\ RunLen(s, i + d + 1, Digits) > 0
  THEN i + d + 1 + RunLen(s, i + d + 1, Digits)
  ELSE i + d

NumEnd(s, i) == NumEndAfter(s, i, RunLen(s, i, Digits))

\* The pieces the patterns are made of: a literal text, \s*, \s+ and num.
Lit(str) == [kind |-> "lit", text |-> str]
Ws == [kind |-> "ws"]
Ws1 == [kind |-> "ws1"]
Num == [kind |-> "num"]

\* The position after the piece item matched at position i (the longest
\* match), 0 when it does not match there.
ItemEnd(s, i, item) ==
  CASE item.kind = "lit" ->
         IF StartsAt(s, i, item.text) THEN i + Len(item.text) ELSE 0
    [] item.kind = "ws" -> i + RunLen(s, i, Whitespace)
    [] item.kind = "ws1" ->
         IF RunLen(s, i, Whitespace) > 0
         THEN i + RunLen(s, i, Whitespace) ELSE 0
    [] item.kind = "num" -> NumEnd(s, i)

\* The pieces items matched one after another from position i, caps being
\* the spans of the groups so far: <<>> when a piece does not match, else
\* <<[end, caps]>> with the position after the last piece and a span more
\* for every num.
RECURSIVE MatchItems(_, _, _, _)
RECURSIVE MatchRest(_, _, _, _, _)
MatchItems(s, i, items, caps) ==
  IF Len(items) = 0 THEN <<[end |-> i, caps |-> caps]>>
  ELSE MatchRest(s, i, ItemEnd(s, i, Head(items)), items, caps)

MatchRest(s, i, e, items, caps) ==
  IF e = 0 THEN <<>>
  ELSE MatchItems(s, e, Tail(items),
                  IF Head(items).kind = "num"
                  THEN Append(caps, <<i, e>>) ELSE caps)

\* gen_pattern, r'Gen\s+{num}.*?Fit:\s*{num}\s*\(mean={num},\s*var={num}
\* (?:,\s*p95={num},\s*max={num})?', in three parts: up to .*?, from Fit:,
\* and the optional part.
GenHeadItems == <<Lit(GenText), Ws1, Num>>

GenRestItems ==
  <<Lit(FitText), Ws, Num, Ws, Lit(MeanText), Num, Lit(<<",">>), Ws,
    Lit(VarText), Num>>

GenOptionalItems ==
  <<Lit(<<",">>), Ws, Lit(P95Text), Num, Lit(<<",">>), Ws, Lit(MaxText),
    Num>>

\* The least element of a set of numbers.
Least(ps) == CHOOSE x \in ps : \A y \in ps : x <= y

\* The spans of groups 5 and 6, given the match of the optional part:
\* both <<>> when it did not match.
GenOptionalCaps(optional) ==
  IF Len(optional) = 0 THEN <<<<>>, <<>>>> ELSE optional[1].caps

\* The spans of the six groups, given the matches of the first two parts.
GenCaps(s, head, rest) ==
  <<head[1].caps \o rest[1].caps \o
    GenOptionalCaps(MatchItems(s, rest[1].end, GenOptionalItems, <<>>))>>

\* The match, given the positions rests where .*? can end so that the
\* second part matches: .*? takes the shortest.
GenShortest(s, head, rests) ==
  IF rests = {} THEN <<>>
  ELSE GenCaps(s, head, MatchItems(s, Least(rests), GenRestItems, <<>>))

\* The match, given the match of the first part: .*? crosses no newline.
GenAfter(s, head) ==
  IF Len(head) = 0 THEN <<>>
  ELSE GenShortest(s, head,
         {p \in head[1].end..(head[1].end + DotLen(s, head[1].end)) :
            Len(MatchItems(s, p, GenRestItems, <<>>)) > 0})

\* The match of gen_pattern that starts at position g.
GenAt(s, g) == GenAfter(s, MatchItems(s, g, GenHeadItems, <<>>))

\* The match, given the positions where one starts: the leftmost.
GenLeftmost(s, starts) ==
  IF starts = {} THEN <<>> ELSE GenAt(s, Least(starts))

\* self.gen_pattern.search(line): <<>> when nothing matches, else <<caps>>,
\* caps[n] the span of group n.
gen_pattern_search(s) ==
  GenLeftmost(s, {g \in 1..Len(s) : Len(GenAt(s, g)) > 0})

\* The phrases of improvement_marker, in the order of the alternation.
MarkerPhrases ==
  <<<<"I", "M", "P", "R", "O", "V", "E", "M", "E", "N", "T">>,
    <<"N", "e", "w", " ", "b", "e", "s", "t">>,
    <<"C", "o", "n", "f", "i", "r", "m", "e", "d", " ",
      "i", "m", "p", "r", "o", "v", "e", "m", "e", "n", "t">>,
    <<"A", "c", "c", "e", "p", "t", "i", "n", "g", " ",
      "c", "a", "n", "d", "i", "d", "a", "t", "e">>,
    <<"N", "E", "W", " ", "B", "E", "S", "T">>,
    <<"G", "L", "O", "B", "A", "L", " ", "B", "E", "S", "T">>,
    <<"B", "A", "S", "E", "L", "I", "N", "E">>>>

\* self.improvement_marker.search(line) is not None: three stars, any
\* whitespace, then one of the phrases, anywhere in the line.
improvement_marker_search(s) ==
  \E g \in 1..Len(s), a \in 1..Len(MarkerPhrases) :
    Len(MatchItems(s, g, <<Lit(Stars), Ws, Lit(MarkerPhrases[a])>>,
                   <<>>)) > 0

\* self.param_pattern.match(line), r'^\s+(\w+) = ([-\d,\.]+)': <<>> when
\* the line does not match, else <<caps>> with the spans of the name and of
\* the number text.
param_pattern_match(s) ==
  LET a == 1 + RunLen(s, 1, Whitespace)
      b == a + RunLen(s, a, WordChars)
      c == b + Len(Assign)
      d == c + RunLen(s, c, Digits \cup {"-", ",", "."})
  IN  IF a > 1 /\ b > a /\ StartsAt(s, b, Assign) /\ d > c
      THEN <<<<<<a, b>>, <<c, d>>>>>>
      ELSE <<>>

\* m.group(n) of a match m on the text s.
group(m, s, n) == SubSeq(s, m[1][n][1], m[1][n][2] - 1)

\* bool(m.group(n)): the group took part (no group of these patterns can
\* match the empty text).
HasGroup(m, n) == Len(m[1][n]) > 0

(***************************************************************************)
(* Numbers.  A float is the pair <<m, e>> standing for m / 10^e, with no   *)
(* trailing zero in the fraction (so equal floats are equal pairs); None   *)
(* is <<>>.  The decimal texts of a log are short enough for float() to    *)
(* tell them apart exactly as the pairs do.  A conversion result is        *)
(* [ok |-> TRUE, v |-> value], or [ok |-> FALSE, ...] for ValueError.      *)
(***************************************************************************)
None == <<>>

DigitValue ==
  [c \in Digits |->
     CASE c = "0" -> 0 [] c = "1" -> 1 [] c = "2" -> 2 [] c = "3" -> 3
       [] c = "4" -> 4 [] c = "5" -> 5 [] c = "6" -> 6 [] c = "7" -> 7
       [] c = "8" -> 8 [] c = "9" -> 9]

\* The natural number a sequence of digits writes (0 for no digit).
RECURSIVE NatOf(_)
NatOf(ds) ==
  IF Len(ds) = 0 THEN 0
  ELSE 10 * NatOf(SubSeq(ds, 1, Len(ds) - 1)) + DigitValue[ds[Len(ds)]]

\* int(s) for a text of digits, '.' and ',': ValueError unless all digits.
int(s) ==
  IF Len(s) > 0 /\ \A j \in 1..Len(s) : s[j] \in Digits
  THEN [ok |-> TRUE, v |-> NatOf(s)]
  ELSE [ok |-> FALSE, v |-> 0]

\* A text left as it is, commas and all: parse_number with it is what the
\* properties of the decimal separator must tell from the code.
KeepCommas(s) == s

\* s.replace(',', '.')
ReplaceCommas(s) == [j \in 1..Len(s) |-> IF s[j] = "," THEN "." ELSE s[j]]

\* s.rstrip('.')
RStripDots(s) ==
  LET keep == {j \in 1..Len(s) : s[j] # "."}
  IN  IF keep = {} THEN <<>>
      ELSE SubSeq(s, 1, CHOOSE j \in keep : \A x \in keep : x <= j)

\* float(s) for a text of digits, '-' and '.': an optional sign, then digits
\* with at most one '.' among them; anything else is a ValueError.
float(s) ==
  LET neg == Len(s) > 0 /\ s[1] = "-"
      body == IF neg THEN Tail(s) ELSE s
      dots == {j \in 1..Len(body) : body[j] = "."}
      dot == IF dots = {} THEN Len(body) + 1 ELSE CHOOSE j \in dots : TRUE
      whole == SubSeq(body, 1, dot - 1)
      frac == SubSeq(body, dot + 1, Len(body))
      sig == {j \in 1..Len(frac) : frac[j] # "0"}
      e == IF sig = {} THEN 0 ELSE CHOOSE j \in sig : \A x \in sig : x <= j
      m == NatOf(whole \o SubSeq(frac, 1, e))
  IN  IF /\ \A j \in 1..Len(body) : body[j] \in Digits \cup {"."}
         /\ Cardinality(dots) <= 1
         /\ Len(whole) + Len(frac) > 0
      THEN [ok |-> TRUE, v |-> <<IF neg THEN 0 - m ELSE m, e>>]
      ELSE [ok |-> FALSE, v |-> None]

\* LogParser.parse_number
parse_number(s) == float(RStripDots(ReplaceCommas(s)))

(***************************************************************************)
(* Lines                                                                   *)
(***************************************************************************)
\* content.split('\n'): the pieces between the newlines, one more than
\* there are newlines.
Split(content) ==
  LET nl == {j \in 1..Len(content) : content[j] = NL}
      at(k) == IF k = 0 THEN 0
               ELSE IF k > Cardinality(nl) THEN Len(content) + 1
               ELSE CHOOSE j \in nl : Cardinality({x \in nl : x <= j}) = k
  IN  [k \in 1..(Cardinality(nl) + 1) |->
         SubSeq(content, at(k - 1) + 1, at(k) - 1)]

\* bool(line.strip())
NonBlank(line) == \E j \in 1..Len(line) : line[j] \notin Whitespace

\* line.startswith(' ')
StartsWithSpace(line) == Len(line) > 0 /\ line[1] = " "

(***************************************************************************)
(* LogParser.parse_incremental                                             *)
(***************************************************************************)
\* The scan of the lines after a marker stops before line i + ScanLimit.
ScanLimit == 20

EmptyDict == [n \in {} |-> None]

\* params[name] = value
SetItem(params, name, value) ==
  [n \in DOMAIN params \cup {name} |-> IF n = name THEN value ELSE params[n]]

\* A scan with no bound on the lines it examines: parse_incremental with it
\* is what the properties of the scan window must tell from the code.
RECURSIVE ScanUnbounded(_, _, _, _)
ScanUnbounded(lines, i, j, params) ==
  IF ~(j <= Len(lines))
  THEN [params |-> params, raised |-> FALSE]
  ELSE
    LET param_match == param_pattern_match(lines[j])
        param_name == group(param_match, lines[j], 1)
        param_value == parse_number(group(param_match, lines[j], 2))
    IN  IF Len(param_match) > 0
        THEN IF param_value.ok
             THEN ScanUnbounded(lines, i, j + 1,
                                SetItem(params, param_name, param_value.v))
             ELSE [params |-> params, raised |-> TRUE]
        ELSE IF NonBlank(lines[j]) /\ ~StartsWithSpace(lines[j])
        THEN [params |-> params, raised |-> FALSE]
        ELSE ScanUnbounded(lines, i, j + 1, params)

\* A scan that passes over an assignment whose value does not convert:
\* parse_incremental with it is what the properties of a conversion that
\* raises must tell from the code.
RECURSIVE ScanSkipping(_, _, _, _)
ScanSkipping(lines, i, j, params) ==
  IF ~(j <= Len(lines) /\ j < i + ScanLimit)
  THEN [params |-> params, raised |-> FALSE]
  ELSE
    LET param_match == param_pattern_match(lines[j])
        param_name == group(param_match, lines[j], 1)
        param_value == parse_number(group(param_match, lines[j], 2))
    IN  IF Len(param_match) > 0
        THEN IF param_value.ok
             THEN ScanSkipping(lines, i, j + 1,
                               SetItem(params, param_name, param_value.v))
             ELSE ScanSkipping(lines, i, j + 1, params)
        ELSE IF NonBlank(lines[j]) /\ ~StartsWithSpace(lines[j])
        THEN [params |-> params, raised |-> FALSE]
        ELSE ScanSkipping(lines, i, j + 1, params)

\* The loop over j of parse_incremental (lines 120-128), from j on, for the
\* marker at line i: [params, raised], raised when parse_number raises.
RECURSIVE ScanParams(_, _, _, _)
ScanParams(lines, i, j, params) ==
  IF ~(j <= Len(lines) /\ j < i + ScanLimit)
  THEN [params |-> params, raised |-> FALSE]
  ELSE
    LET param_match == param_pattern_match(lines[j])
        param_name == group(param_match, lines[j], 1)
        param_value == parse_number(group(param_match, lines[j], 2))
    IN  IF Len(param_match) > 0
        THEN IF param_value.ok
             THEN ScanParams(lines, i, j + 1,
                             SetItem(params, param_name, param_value.v))
             ELSE [params |-> params, raised |-> TRUE]
        ELSE IF NonBlank(lines[j]) /\ ~StartsWithSpace(lines[j])
        THEN [params |-> params, raised |-> FALSE]
        ELSE ScanParams(lines, i, j + 1, params)

\* An optional number that is zero, not None, when its group is absent:
\* parse_incremental with it is what the properties of p95 and max must
\* tell from the code.
OptionalZero(gen_match, line, n) ==
  IF HasGroup(gen_match, n) THEN parse_number(group(gen_match, line, n))
  ELSE [ok |-> TRUE, v |-> <<0, 0>>]

\* self.parse_number(gen_match.group(n)) if gen_match.group(n) else None
OptionalNumber(gen_match, line, n) ==
  IF HasGroup(gen_match, n) THEN parse_number(group(gen_match, line, n))
  ELSE [ok |-> TRUE, v |-> None]

\* One assignment self.<field> = <conversion>: it is not reached when an
\* earlier one raised, and raises itself when the conversion does.
Assigned(st, field, converted) ==
  IF st.raised THEN st
  ELSE IF converted.ok THEN [st EXCEPT ![field] = converted.v]
  ELSE [st EXCEPT !.raised = TRUE]

\* The assignments of lines 107-113 for a generation line, in order, up to
\* the first conversion that raises.
UpdateRolling(st, line, gen_match) ==
  Assigned(
    Assigned(
      Assigned(
        Assigned(
          Assigned(
            Assigned(st, "last_gen", int(group(gen_match, line, 1))),
            "last_fitness", parse_number(group(gen_match, line, 2))),
          "last_mean", parse_number(group(gen_match, line, 3))),
        "last_variance", parse_number(group(gen_match, line, 4))),
      "last_p95", OptionalNumber(gen_match, line, 5)),
    "last_max", OptionalNumber(gen_match, line, 6))

\* Lines 104-113 for a line, gen_match being the result of the search.
HandleGeneration(st, line, gen_match) ==
  IF Len(gen_match) > 0 THEN UpdateRolling(st, line, gen_match) ELSE st

\* A record that holds the values of a new parser and not the rolling
\* fields: parse_incremental with it is what the properties of a record's
\* metrics must tell from the code.
RecordUnstated(st, params) ==
  [generation |-> 0, fitness |-> None, mean |-> None, variance |-> None,
   p95 |-> None, max |-> None, params |-> params]

\* The record appended at lines 131-139.
Record(st, params) ==
  [generation |-> st.last_gen, fitness |-> st.last_fitness,
   mean |-> st.last_mean, variance |-> st.last_variance,
   p95 |-> st.last_p95, max |-> st.last_max, params |-> params]

\* An append that forgets the records held before: parse_incremental with
\* it is what the properties of the list must tell from the code.
ReplaceRecords(st, i, scan) ==
  IF scan.raised THEN [st EXCEPT !.raised = TRUE]
  ELSE IF DOMAIN scan.params # {}
  THEN [st EXCEPT !.improvements = <<Record(st, scan.params)>>,
                  !.markers = Append(@, i)]
  ELSE st

\* An append also for a scan that captured nothing: parse_incremental with
\* it is what the properties of a marker without assignments must tell
\* from the code.
AppendAlways(st, i, scan) ==
  IF scan.raised THEN [st EXCEPT !.raised = TRUE]
  ELSE [st EXCEPT !.improvements = Append(@, Record(st, scan.params)),
                  !.markers = Append(@, i)]

\* Lines 130-139 for the marker at line i, scan being the outcome of the
\* loop over j.  st.markers notes, for each record appended, the index i of
\* its marker, and st.scanned the index of each marker handled.
AppendRecord(st, i, scan) ==
  IF scan.raised THEN [st EXCEPT !.raised = TRUE]
  ELSE IF DOMAIN scan.params # {}
  THEN [st EXCEPT !.improvements = Append(@, Record(st, scan.params)),
                  !.markers = Append(@, i)]
  ELSE st

\* Lines 116-139 for line i: the marker test, the scan and the append; they
\* are not reached when the generation part raised.
HandleMarker(st, lines, i) ==
  IF st.raised \/ ~improvement_marker_search(lines[i]) THEN st
  ELSE AppendRecord([st EXCEPT !.scanned = Append(@, i)], i,
                    ScanParams(lines, i, i + 1, EmptyDict))

\* A turn of the loop that handles the marker before the generation:
\* parse_incremental with it is what the properties of the order of the
\* two tests must tell from the code.
MarkerFirst(st, lines, i) ==
  [HandleGeneration(HandleMarker(st, lines, i), lines[i],
                    gen_pattern_search(lines[i]))
   EXCEPT !.at = i]

\* One turn of the loop over i (lines 101-141).
ProcessLine(st, lines, i) ==
  [HandleMarker(
     HandleGeneration(st, lines[i], gen_pattern_search(lines[i])),
     lines, i)
   EXCEPT !.at = i]

\* The loop over i from line i on; it ends at the first line that raises.
RECURSIVE ProcessLines(_, _, _)
ProcessLines(st, lines, i) ==
  IF i > Len(lines) \/ st.raised THEN st
  ELSE ProcessLines(ProcessLine(st, lines, i), lines, i + 1)

\* A read that starts at the beginning of the file whatever the offset:
\* parse_incremental with it is what the properties of a call that finds
\* nothing new must tell from the code.
ReadAll(text, offset) == text

\* f.seek(self.file_position); f.read(): the text from the offset to the end
\* of the file, empty when the offset is at or beyond the end.  The logs of
\* the model are ASCII without carriage returns, so that a character is a
\* byte and the text mode of open() changes nothing.
ReadFrom(text, offset) == SubSeq(text, offset + 1, Len(text))

\* A tell() that answers the offset sought, as if the read had not moved
\* the file: parse_incremental with it is what the properties of the offset
\* must tell from the code.
TellUnmoved(text, offset) == offset

\* A tell() that gives the end of the file wherever the read started:
\* parse_incremental with it is what the properties of a file shorter than
\* the offset must tell from the code.
TellAtEnd(text, offset) == Len(text)

\* f.tell() after that read: the end of the file, or the offset sought when
\* it lies beyond the end.
TellAfterRead(text, offset) ==
  IF offset > Len(text) THEN offset ELSE Len(text)

\* lines 89-97: the lines to test of partial_line + new_content, and the
\* new partial_line.  When new_content ends with a newline the last piece
\* of the split, the empty text after that newline, stays among the lines
\* (tail).
SplitLines(partial, new_content) ==
  LET pieces == Split(partial \o new_content)
  IN  IF new_content[Len(new_content)] # NL
      THEN [lines |-> SubSeq(pieces, 1, Len(pieces) - 1),
            partial_line |-> pieces[Len(pieces)], tail |-> FALSE]
      ELSE [lines |-> pieces, partial_line |-> <<>>, tail |-> TRUE]

\* The loop's view of the parser object when it starts.
Started(self) ==
  [improvements |-> self.improvements,
   last_gen |-> self.last_gen,
   last_fitness |-> self.last_fitness,
   last_mean |-> self.last_mean,
   last_variance |-> self.last_variance,
   last_p95 |-> self.last_p95,
   last_max |-> self.last_max,
   raised |-> FALSE, at |-> 0, markers |-> <<>>, scanned |-> <<>>]

\* A return value that is true whenever the loop tested a line:
\* parse_incremental with it is what the properties of the return value
\* must tell from the code.
TestedSomeLine(self, st) == st.at > 0

\* len(self.improvements) > initial_count (lines 78 and 143)
NewRecords(self, st) == Len(st.improvements) > Len(self.improvements)

\* An outcome that leaves the parser as it was when the loop raised:
\* parse_incremental with it is what the properties of the state after an
\* exception must tell from the code.
RolledBack(self, position, split, st) ==
  [self |-> IF st.raised THEN self
            ELSE [file_position |-> position,
                  improvements |-> st.improvements,
                  last_gen |-> st.last_gen,
                  last_fitness |-> st.last_fitness,
                  last_mean |-> st.last_mean,
                  last_variance |-> st.last_variance,
                  last_p95 |-> st.last_p95,
                  last_max |-> st.last_max,
                  partial_line |-> split.partial_line],
   returned |-> IF st.raised THEN "ValueError"
                ELSE IF NewRecords(self, st) THEN "True" ELSE "False",
   lines |-> SubSeq(split.lines, 1, st.at),
   tail |-> split.tail /\ st.at = Len(split.lines),
   markers |-> st.markers,
   scanned |-> st.scanned,
   seen |-> Len(split.lines) - (IF split.tail THEN 1 ELSE 0)]

\* The outcome of a call that has read something: position is what tell()
\* gave, split the lines and the new partial_line, st the parser when the
\* loop ended.
Finished(self, position, split, st) ==
  [self |-> [file_position |-> position,
             improvements |-> st.improvements,
             last_gen |-> st.last_gen,
             last_fitness |-> st.last_fitness,
             last_mean |-> st.last_mean,
             last_variance |-> st.last_variance,
             last_p95 |-> st.last_p95,
             last_max |-> st.last_max,
             partial_line |-> split.partial_line],
   returned |-> IF st.raised THEN "ValueError"
                ELSE IF NewRecords(self, st) THEN "True" ELSE "False",
   lines |-> SubSeq(split.lines, 1, st.at),
   tail |-> split.tail /\ st.at = Len(split.lines),
   markers |-> st.markers,
   scanned |-> st.scanned,
   seen |-> Len(split.lines) - (IF split.tail THEN 1 ELSE 0)]

\* Lines 88-143, for what the read gave.
Parsed(self, position, split) ==
  Finished(self, position, split,
           ProcessLines(Started(self), split.lines, 1))

\* parse_incremental on the parser object self, the file being there or not
\* (there) with the text content: the object after the call, what the call
\* returned ("True", "False", or "ValueError" when it raised), and, for the
\* properties, the lines it tested (tail: the last of them is the empty
\* text after the final newline of the read), the index among them of the
\* marker line of each new record (markers) and of each marker handled
\* (scanned), and the number of lines of the file it had split off (seen).
parse_incremental(self, there, content) ==
  IF ~there
  THEN [self |-> self, returned |-> "False", lines |-> <<>>,
        tail |-> FALSE, markers |-> <<>>, scanned |-> <<>>, seen |-> 0]
  ELSE IF Len(ReadFrom(content, self.file_position)) = 0
  THEN [self |-> [self EXCEPT !.file_position =
                                TellAfterRead(content, self.file_position)],
        returned |-> "False", lines |-> <<>>, tail |-> FALSE,
        markers |-> <<>>, scanned |-> <<>>, seen |-> 0]
  ELSE Parsed(self, TellAfterRead(content, self.file_position),
              SplitLines(self.partial_line,
                         ReadFrom(content, self.file_position)))

\* LogParser.__init__
NewParser ==
  [file_position |-> 0, improvements |-> <<>>, last_gen |-> 0,
   last_fitness |-> None, last_mean |-> None, last_variance |-> None,
   last_p95 |-> None, last_max |-> None, partial_line |-> <<>>]

(***************************************************************************)
(* The log lines the optimizer writes in the model                         *)
(***************************************************************************)
\* a generation line without p95 and max: "Gen 5 Fit:1,5(mean=2,var=3)"
GenLine ==
  <<"G", "e", "n", " ", "5", " ", "F", "i", "t", ":", "1", ",", "5", "(",
    "m", "e", "a", "n", "=", "2", ",", "v", "a", "r", "=", "3", ")">>

\* a generation line with p95 and max: "Gen 7 Fit:4(mean=5,var=6,p95=8,max=9)"
GenLineTail ==
  <<"G", "e", "n", " ", "7", " ", "F", "i", "t", ":", "4", "(", "m", "e",
    "a", "n", "=", "5", ",", "v", "a", "r", "=", "6", ",", "p", "9", "5",
    "=", "8", ",", "m", "a", "x", "=", "9", ")">>

\* an improvement marker: "*** NEW BEST"
MarkerLine ==
  <<"*", "*", "*", " ", "N", "E", "W", " ", "B", "E", "S", "T">>

\* an indented parameter assignment: " a = 1"
ParamA ==
  <<" ", "a", " ", "=", " ", "1">>

\* another one, negative, with a decimal comma: " b = -2,5"
ParamB ==
  <<" ", "b", " ", "=", " ", "-", "2", ",", "5">>

\* unindented text that is none of the above: "x"
OtherLine ==
  <<"x">>

\* indented text that is no assignment: " y"
IndentedLine ==
  <<" ", "y">>

\* text indented by a tab that is no assignment: "\ty"
TabLine ==
  <<"\t", "y">>

\* an assignment indented by a tab: "\tc = 3"
TabParam ==
  <<"\t", "c", " ", "=", " ", "3">>

BlankLine == <<>>

\* a line that is both a marker and a generation line:
\* "*** NEW BEST Gen 6 Fit:2(mean=3,var=4)"
BothLine ==
  <<"*", "*", "*", " ", "N", "E", "W", " ", "B", "E", "S", "T", " ", "G",
    "e", "n", " ", "6", " ", "F", "i", "t", ":", "2", "(", "m", "e", "a",
    "n", "=", "3", ",", "v", "a", "r", "=", "4", ")">>

\* an indented generation line: " Gen 8 Fit:1(mean=2,var=3)"
IndentedGen ==
  <<" ", "G", "e", "n", " ", "8", " ", "F", "i", "t", ":", "1", "(", "m",
    "e", "a", "n", "=", "2", ",", "v", "a", "r", "=", "3", ")">>

\* an indented marker: " *** NEW BEST"
IndentedMarker == <<" ">> \o MarkerLine

\* The text of a file that holds the lines ls, each ended by a newline.
RECURSIVE JoinLines(_)
JoinLines(ls) ==
  IF Len(ls) = 0 THEN <<>>
  ELSE Head(ls) \o <<NL>> \o JoinLines(Tail(ls))

\* All sequences of 1 to n lines of the set ls.
LineSeqs(ls, n) == UNION {[1..k -> ls] : k \in 1..n}

\* The lines the optimizer chooses from while its flushes are watched
\* character by character.
Lines == {GenLine, MarkerLine, ParamA, OtherLine}

(***************************************************************************)
(* State                                                                   *)
(***************************************************************************)
\* The most lines the optimizer writes while it is watched.
MaxLines == 2

VARIABLES
  exists,          \* the log file is there (Path.exists)
  file,            \* its text
  unflushed,       \* text the optimizer has written but not yet flushed
  file_position, improvements, last_gen, last_fitness, last_mean,
  last_variance, last_p95, last_max, partial_line,   \* the LogParser
  returned,        \* what the latest parse_incremental call returned
  tested,          \* every line the loop over i has tested, in order
  tails,           \* the indices in tested of the empty texts that stood
                   \* after the final newline of a read
  joined,          \* some tested line began in partial_line
  origin,          \* for each record, the file line number of its marker
                   \* and of the last line its call had split off
  scanned,         \* the same for each marker line handled
  running, last_improvement_count,   \* the ScrollablePlotter
  fitness_data,    \* the data of its fitness line
  drawn,           \* the n of the title of its combined figure
  scheduled,       \* the calls of update that root.after has pending
  monitor,         \* where main is: "new", "mainloop", "closed", "done",
                   \* or "crashed" by an exception
  summary,         \* what print_summary printed
  argv,            \* the positional arguments of main: <<>> or <<path>>
  log_dir,         \* the files of logs/ that match genetic_optimizer_*.txt:
                   \* a function from their names to modification times
  log_file,        \* the file main has chosen (<<>>: none)
  outcome,         \* "start", then "monitoring" (the parser is made) or
                   \* "exit 1"
  results_dir,     \* plotter.py: the names of the files of
                   \* simulation_results/
  current_mode, selected_strategy,   \* its globals
  strategy_data,   \* a function from each key to the file whose turns
                   \* stand under it
  current_strategy_lines   \* the values of the elements that can be picked

log_vars == <<exists, file, unflushed>>

parser_vars ==
  <<file_position, improvements, last_gen, last_fitness, last_mean,
    last_variance, last_p95, last_max, partial_line>>

call_vars == <<returned, tested, tails, joined, origin, scanned>>

monitor_vars ==
  <<running, last_improvement_count, fitness_data, drawn, scheduled,
    monitor, summary>>

main_vars == <<argv, log_dir, log_file, outcome>>

plot_vars ==
  <<results_dir, current_mode, selected_strategy, strategy_data,
    current_strategy_lines>>

vars ==
  <<log_vars, parser_vars, call_vars, monitor_vars, main_vars, plot_vars>>

\* The parser object as a record.
Self ==
  [file_position |-> file_position, improvements |-> improvements,
   last_gen |-> last_gen, last_fitness |-> last_fitness,
   last_mean |-> last_mean, last_variance |-> last_variance,
   last_p95 |-> last_p95, last_max |-> last_max,
   partial_line |-> partial_line]

\* The number of newlines in a text.
Newlines(text) == Cardinality({j \in 1..Len(text) : text[j] = NL})

\* A new parser, not yet called.
InitParser ==
  /\ file_position = NewParser.file_position
  /\ improvements = NewParser.improvements
  /\ last_gen = NewParser.last_gen
  /\ last_fitness = NewParser.last_fitness
  /\ last_mean = NewParser.last_mean
  /\ last_variance = NewParser.last_variance
  /\ last_p95 = NewParser.last_p95
  /\ last_max = NewParser.last_max
  /\ partial_line = NewParser.partial_line
  /\ returned = "none"
  /\ tested = <<>>
  /\ tails = {}
  /\ joined = FALSE
  /\ origin = <<>>
  /\ scanned = <<>>

\* ScrollablePlotter.__init__, in a main that has not yet called run.
InitMonitor ==
  /\ running = TRUE
  /\ last_improvement_count = 0
  /\ fitness_data = <<>>
  /\ drawn = 0
  /\ scheduled = 0
  /\ monitor = "new"
  /\ summary = "none"

\* main has its log file and has made the parser: how it came by the file
\* plays no part.
InitChosen ==
  /\ argv = <<>>
  /\ log_dir = <<>>
  /\ log_file = <<>>
  /\ outcome = "monitoring"

\* plotter.py is not running: another program than the monitor.
InitUnplotted ==
  /\ results_dir = {}
  /\ current_mode = "all"
  /\ selected_strategy = <<>>
  /\ strategy_data = <<>>
  /\ current_strategy_lines = {}

Init ==
  /\ exists = FALSE
  /\ file = <<>>
  /\ unflushed = <<>>
  /\ InitParser
  /\ InitMonitor
  /\ InitChosen
  /\ InitUnplotted

(***************************************************************************)
(* The optimizer, which writes the log                                     *)
(***************************************************************************)
\* The optimizer opens its log: the file appears, empty.
Create ==
  /\ ~exists
  /\ exists' = TRUE
  /\ UNCHANGED <<file, unflushed, parser_vars, call_vars, monitor_vars,
                 main_vars, plot_vars>>

\* The optimizer writes a line; it reaches the file when flushed.
Write(line) ==
  /\ exists
  /\ unflushed = <<>>
  /\ Newlines(file) < MaxLines
  /\ unflushed' = line \o <<NL>>
  /\ UNCHANGED <<exists, file, parser_vars, call_vars, monitor_vars,
                 main_vars, plot_vars>>

\* The next character written and not yet flushed reaches the file: a
\* reader may see the file after any number of them.
Flush ==
  /\ Len(unflushed) > 0
  /\ file' = Append(file, Head(unflushed))
  /\ unflushed' = Tail(unflushed)
  /\ UNCHANGED <<exists, parser_vars, call_vars, monitor_vars,
                 main_vars, plot_vars>>

(***************************************************************************)
(* A call of parse_incremental                                             *)
(***************************************************************************)
\* The parser and the record of its calls after the call.
Called(call) ==
  LET first == Newlines(SubSeq(file, 1, file_position))
  IN  /\ file_position' = call.self.file_position
      /\ improvements' = call.self.improvements
      /\ last_gen' = call.self.last_gen
      /\ last_fitness' = call.self.last_fitness
      /\ last_mean' = call.self.last_mean
      /\ last_variance' = call.self.last_variance
      /\ last_p95' = call.self.last_p95
      /\ last_max' = call.self.last_max
      /\ partial_line' = call.self.partial_line
      /\ returned' = call.returned
      /\ tested' = tested \o call.lines
      /\ tails' = IF call.tail
                  THEN tails \cup {Len(tested) + Len(call.lines)}
                  ELSE tails
      /\ joined' = (joined \/ (Len(partial_line) > 0 /\ Len(call.lines) > 0))
      /\ origin' = origin \o
           [k \in 1..Len(call.markers) |->
              [marker |-> first + call.markers[k],
               last |-> first + call.seen]]
      /\ scanned' = scanned \o
           [k \in 1..Len(call.scanned) |->
              [marker |-> first + call.scanned[k],
               last |-> first + call.seen]]

ParseIncremental ==
  \E call \in {parse_incremental(Self, exists, file)} :
    /\ Called(call)
    /\ UNCHANGED <<log_vars, monitor_vars, main_vars, plot_vars>>

Next ==
  \/ Create
  \/ \E line \in Lines : Write(line)
  \/ Flush
  \/ ParseIncremental

Spec == Init /\ [][Next]_vars

(***************************************************************************)
(* One file read whole or in two parts.  The file is one of SplitFiles;    *)
(* the reader sees nothing of it, then its first n characters for any n,   *)
(* then all of it, and parse_incremental runs at any of these moments.     *)
(***************************************************************************)
\* The most lines of such a file.
MaxSplitLines == 3

SplitFiles == {JoinLines(ls) : ls \in LineSeqs(Lines, MaxSplitLines)}

InitSplit ==
  /\ exists = TRUE
  /\ file = <<>>
  /\ unflushed \in SplitFiles
  /\ InitParser
  /\ InitMonitor
  /\ InitChosen
  /\ InitUnplotted

\* The first n characters of the file are there.
FlushFirst(n) ==
  /\ Len(file) = 0
  /\ file' = SubSeq(unflushed, 1, n)
  /\ unflushed' = SubSeq(unflushed, n + 1, Len(unflushed))
  /\ UNCHANGED <<exists, parser_vars, call_vars, monitor_vars,
                 main_vars, plot_vars>>

\* The rest of the file is there.
FlushRest ==
  /\ Len(file) > 0
  /\ Len(unflushed) > 0
  /\ file' = file \o unflushed
  /\ unflushed' = <<>>
  /\ UNCHANGED <<exists, parser_vars, call_vars, monitor_vars,
                 main_vars, plot_vars>>

NextSplit ==
  \/ \E n \in 1..Len(unflushed) : FlushFirst(n)
  \/ FlushRest
  \/ ParseIncremental

SpecSplit == InitSplit /\ [][NextSplit]_vars

(***************************************************************************)
(* A log that grows by whole lines.  The parser is made for a log that     *)
(* may already hold lines (one of StartFiles); the optimizer appends       *)
(* whole lines of LogLines, and parse_incremental runs at any moment.      *)
(***************************************************************************)
\* The most lines of the log while lines are appended to it.
MaxLogLines == 4

LogLines == {GenLine, GenLineTail, MarkerLine, ParamA}

\* n times the line l.
Repeat(l, n) == [k \in 1..n |-> l]

\* The most lines between a marker and the last assignment in a start file.
MaxFill == 20

\* A marker, n lines of one kind, then the assignment of b; the marker is
\* the first line or the second.
WindowFiles ==
  {JoinLines(pre \o <<MarkerLine>> \o Repeat(fill, n) \o <<ParamB>>) :
     pre \in {<<>>, <<OtherLine>>},
     fill \in {ParamA, BlankLine, IndentedLine},
     n \in (ScanLimit - 3)..MaxFill}

\* A marker, one line of any kind, then the assignment of b.
ScanFiles ==
  {JoinLines(<<MarkerLine, l, ParamB>>) :
     l \in {OtherLine, BlankLine, IndentedLine, TabLine, TabParam, ParamA,
            MarkerLine, GenLine}}

\* Logs with a line that is both a marker and a generation line, with and
\* without assignments behind it.
BothFiles ==
  {JoinLines(<<GenLineTail, BothLine, MarkerLine, ParamA>>),
   JoinLines(<<GenLineTail, BothLine, ParamA>>)}

\* A marker, an assignment behind a tab, other text behind a tab, and an
\* assignment behind a space.
TabFile == JoinLines(<<MarkerLine, TabParam, TabLine, ParamB>>)

\* A marker that is a generation line too, and in the window of its scan
\* an indented generation line and an indented marker between two
\* assignments.
PassFile ==
  JoinLines(<<GenLineTail, BothLine, ParamA, IndentedGen, IndentedMarker,
              ParamB>>)

\* A generation, a marker and two assignments.
ExampleFile == JoinLines(<<GenLine, MarkerLine, ParamA, ParamB>>)

StartFiles ==
  {<<>>, ExampleFile, TabFile, PassFile} \cup WindowFiles \cup ScanFiles
    \cup BothFiles

InitLines ==
  /\ exists = TRUE
  /\ file \in StartFiles
  /\ unflushed = <<>>
  /\ InitParser
  /\ InitMonitor
  /\ InitChosen
  /\ InitUnplotted

\* The optimizer writes a line and flushes it, while the log has fewer
\* than most lines.
AppendLine(line, most) ==
  /\ Newlines(file) < most
  /\ file' = file \o line \o <<NL>>
  /\ UNCHANGED <<exists, unflushed, parser_vars, call_vars, monitor_vars,
                 main_vars, plot_vars>>

NextLines ==
  \/ \E line \in LogLines : AppendLine(line, MaxLogLines)
  \/ ParseIncremental

SpecLines == InitLines /\ [][NextLines]_vars

(***************************************************************************)
(* Logs whose numbers vary in sign and decimal separator.  The log is a    *)
(* generation line in the documented shape, a marker and an assignment;    *)
(* parse_incremental runs before or after the optimizer appends more.      *)
(***************************************************************************)
\* The two decimal separators.
Separators == {",", "."}

\* A decimal number with one digit before and one after the separator, by
\* its sign, digits and separator.
Decimal(neg, whole, sep, frac) ==
  [neg |-> neg, whole |-> whole, sep |-> sep, frac |-> frac]

\* The text of such a number in a log, e.g. "-2,5".
NumText(n) ==
  (IF n.neg THEN <<"-">> ELSE <<>>) \o <<n.whole, n.sep, n.frac>>

\* The float it writes (frac is not "0").
Value(n) ==
  <<(IF n.neg THEN 0 - 1 ELSE 1)
      * (10 * DigitValue[n.whole] + DigitValue[n.frac]), 1>>

\* "Gen 5 - Fit: <fit> (mean=<mean>, var=<var>[, p95=<p95>, max=<max>])",
\* tail being <<>> or <<p95, max>>.
GenWith(fit, mean, var, tail) ==
  <<"G", "e", "n", " ", "5", " ", "-", " ", "F", "i", "t", ":", " ">>
    \o NumText(fit)
    \o <<" ", "(", "m", "e", "a", "n", "=">> \o NumText(mean)
    \o <<",", " ", "v", "a", "r", "=">> \o NumText(var)
    \o (IF Len(tail) = 0 THEN <<>>
        ELSE <<",", " ", "p", "9", "5", "=">> \o NumText(tail[1])
               \o <<",", " ", "m", "a", "x", "=">> \o NumText(tail[2]))
    \o <<")">>

\* " b = <val>"
ParamWith(val) == <<" ", "b", " ", "=", " ">> \o NumText(val)

\* The log of a choice c of numbers: its generation line, a marker, its
\* assignment.
NumberFile(c) ==
  JoinLines(<<GenWith(c.fit, c.mean, c.var, c.tail), MarkerLine,
              ParamWith(c.val)>>)

\* The choices that differ in decimal separators only: fitness 1.5, mean
\* 2.5, variance 3.5, with or without p95 8.5 and max 9.5, and b = -2.5.
SeparatorChoices ==
  {[fit |-> Decimal(FALSE, "1", s1, "5"),
    mean |-> Decimal(FALSE, "2", s2, "5"),
    var |-> Decimal(FALSE, "3", s3, "5"),
    tail |-> tl,
    val |-> Decimal(TRUE, "2", s4, "5")] :
     s1 \in Separators, s2 \in Separators, s3 \in Separators,
     s4 \in Separators,
     tl \in {<<>>} \cup
            {<<Decimal(FALSE, "8", s5, "5"), Decimal(FALSE, "9", s5, "5")>> :
               s5 \in Separators}}

\* The choices with a negative fitness, mean or variance.
NegativeChoices ==
  {[fit |-> Decimal(which = 1, "1", s, "5"),
    mean |-> Decimal(which = 2, "2", s, "5"),
    var |-> Decimal(which = 3, "3", s, "5"),
    tail |-> <<>>,
    val |-> Decimal(TRUE, "2", s, "5")] :
     which \in 1..3, s \in Separators}

NumberFiles ==
  {NumberFile(c) : c \in SeparatorChoices \cup NegativeChoices}

\* The lines the optimizer appends to such a log, and the most lines of it.
NumberLines == {MarkerLine, ParamA}

MaxNumberLines == 4

InitNumbers ==
  /\ exists = TRUE
  /\ file \in NumberFiles
  /\ unflushed = <<>>
  /\ InitParser
  /\ InitMonitor
  /\ InitChosen
  /\ InitUnplotted

NextNumbers ==
  \/ \E line \in NumberLines : AppendLine(line, MaxNumberLines)
  \/ ParseIncremental

SpecNumbers == InitNumbers /\ [][NextNumbers]_vars

(***************************************************************************)
(* Logs with numbers that do not convert.  The log starts as one of        *)
(* RaiseFiles, some of which end in a line the optimizer has begun, and    *)
(* parse_incremental runs before or after the optimizer appends more.      *)
(***************************************************************************)
\* assignments whose value matches the pattern and is no number:
\* " a = -", " a = 1,2,3", " a = ..."
BadDash == <<" ", "a", " ", "=", " ", "-">>

BadCommas == <<" ", "a", " ", "=", " ", "1", ",", "2", ",", "3">>

BadDots == <<" ", "a", " ", "=", " ", ".", ".", ".">>

BadParams == {BadDash, BadCommas, BadDots}

\* a generation line whose generation has a decimal part:
\* "Gen 5,3 Fit:1(mean=2,var=3)"
BadGen ==
  <<"G", "e", "n", " ", "5", ",", "3", " ", "F", "i", "t", ":", "1", "(",
    "m", "e", "a", "n", "=", "2", ",", "v", "a", "r", "=", "3", ")">>

\* The beginning of the line " b = -2,5" and the rest of it.
Begun == SubSeq(ParamB, 1, 2)

Rest == SubSeq(ParamB, 3, Len(ParamB))

\* Logs where the bad line is the first thing a call meets, and logs where
\* a record and a generation stand before it, a generation line after it
\* and a begun line at the end.
RaiseFiles ==
  {JoinLines(<<MarkerLine, bad, ParamA>>) : bad \in BadParams}
    \cup {JoinLines(<<BadGen, MarkerLine, ParamA>>)}
    \cup {JoinLines(<<GenLine, MarkerLine, ParamA, MarkerLine, bad,
                      GenLineTail>>) \o Begun : bad \in BadParams}
    \cup {JoinLines(<<GenLine, MarkerLine, ParamA, BadGen, GenLineTail>>)
            \o Begun}

\* What the optimizer appends to such a log, each with a newline, and the
\* most lines of the log.
RaiseLines == {Rest, MarkerLine}

MaxRaiseLines == 7

InitRaise ==
  /\ exists = TRUE
  /\ file \in RaiseFiles
  /\ unflushed = <<>>
  /\ InitParser
  /\ InitMonitor
  /\ InitChosen
  /\ InitUnplotted

NextRaise ==
  \/ \E line \in RaiseLines : AppendLine(line, MaxRaiseLines)
  \/ ParseIncremental

SpecRaise == InitRaise /\ [][NextRaise]_vars

(***************************************************************************)
(* A log that is truncated or replaced by a shorter one.  The log starts   *)
(* with a marker, an assignment and a begun line; at any time it may be    *)
(* replaced by a text shorter than the offset the parser has saved, and    *)
(* grows again line by line.                                               *)
(***************************************************************************)
\* The log at the start.
TruncateFile == JoinLines(<<MarkerLine, ParamA>>) \o Begun

\* What the log is replaced by: nothing, or one line.
Replacements == {<<>>, JoinLines(<<OtherLine>>)}

\* The lines appended, and the most lines of the log.
TruncateLines == {MarkerLine, ParamA}

MaxTruncateLines == 3

InitTruncate ==
  /\ exists = TRUE
  /\ file = TruncateFile
  /\ unflushed = <<>>
  /\ InitParser
  /\ InitMonitor
  /\ InitChosen
  /\ InitUnplotted

\* The log is truncated, or replaced, to a length below the saved offset.
Truncate ==
  /\ \E text \in Replacements :
       /\ Len(text) < file_position
       /\ file' = text
  /\ UNCHANGED <<exists, unflushed, parser_vars, call_vars, monitor_vars,
                 main_vars, plot_vars>>

NextTruncate ==
  \/ Truncate
  \/ \E line \in TruncateLines : AppendLine(line, MaxTruncateLines)
  \/ ParseIncremental

SpecTruncate == InitTruncate /\ [][NextTruncate]_vars

(***************************************************************************)
(* The monitor: main makes a parser and a ScrollablePlotter and calls run, *)
(* whose update calls itself again through root.after until the window is  *)
(* closed; then main prints the summary.                                   *)
(***************************************************************************)
\* The plotter object as a record.
Plotter ==
  [running |-> running, last_improvement_count |-> last_improvement_count,
   fitness_data |-> fitness_data, drawn |-> drawn]

\* No call of parse_incremental was made.
NoCall == <<>>

\* Lines 291-391 of update, call being the call of parse_incremental it
\* made.  Formatting the least fitness raises TypeError when a record has
\* none.
Updated(self, call) ==
  LET imps == call.self.improvements
  IN  IF call.returned = "ValueError"
      THEN [self |-> self, call |-> call, after |-> 0, raised |-> TRUE]
      ELSE IF Len(imps) = 0 \/ Len(imps) = self.last_improvement_count
      THEN [self |-> self, call |-> call, after |-> 1, raised |-> FALSE]
      ELSE IF \E k \in 1..Len(imps) : imps[k].fitness = None
      THEN [self |-> [self EXCEPT
                        !.last_improvement_count = Len(imps),
                        !.fitness_data =
                           [k \in 1..Len(imps) |->
                              <<imps[k].generation, imps[k].fitness>>]],
            call |-> call, after |-> 0, raised |-> TRUE]
      ELSE [self |-> [self EXCEPT
                        !.last_improvement_count = Len(imps),
                        !.fitness_data =
                           [k \in 1..Len(imps) |->
                              <<imps[k].generation, imps[k].fitness>>],
                        !.drawn = Len(imps)],
            call |-> call, after |-> 1, raised |-> FALSE]

\* ScrollablePlotter.update on the plotter self with the parser object
\* parser: the plotter after it, the call of parse_incremental it made,
\* whether it called root.after (after, 0 or 1), and whether it raised.
update(self, parser, there, content) ==
  IF ~self.running
  THEN [self |-> self, call |-> NoCall, after |-> 0, raised |-> FALSE]
  ELSE Updated(self, parse_incremental(parser, there, content))

\* print_summary prints the last Recent records one by one.
Recent == 5

\* print_summary: what it printed, "empty" for "No improvements found.",
\* "TypeError" when it raised on a record without fitness.
print_summary(imps) ==
  LET recent == {k \in 1..Len(imps) : k > Len(imps) - Recent}
  IN  IF Len(imps) = 0 THEN "empty"
      ELSE IF \E k \in recent : imps[k].fitness = None THEN "TypeError"
      ELSE "printed"

\* Two calls of parse_incremental, the second on a file the first has read
\* to its end, as one entry in the record of calls.
Both(c1, c2) ==
  [self |-> c2.self, returned |-> c2.returned,
   lines |-> c1.lines \o c2.lines, tail |-> c1.tail,
   markers |-> c1.markers, scanned |-> c1.scanned, seen |-> c1.seen]

\* The plotter after an update.
Plotted(u) ==
  /\ last_improvement_count' = u.self.last_improvement_count
  /\ fitness_data' = u.self.fitness_data
  /\ drawn' = u.self.drawn

\* ScrollablePlotter.run up to root.mainloop(): parse_incremental, then
\* update.  An exception leaves run and main.
Run ==
  /\ monitor = "new"
  /\ \E c1 \in {parse_incremental(Self, exists, file)} :
       IF c1.returned = "ValueError"
       THEN /\ Called(c1)
            /\ monitor' = "crashed"
            /\ UNCHANGED <<running, last_improvement_count, fitness_data,
                           drawn, scheduled, summary>>
       ELSE \E u \in {update(Plotter, c1.self, exists, file)} :
              /\ Called(Both(c1, u.call))
              /\ Plotted(u)
              /\ scheduled' = scheduled + u.after
              /\ monitor' = IF u.raised THEN "crashed" ELSE "mainloop"
              /\ UNCHANGED <<running, summary>>
  /\ UNCHANGED <<log_vars, main_vars, plot_vars>>

\* The main loop runs a pending call of update.  An exception in it is
\* reported and the loop goes on.  A call still pending when the window is
\* closed finds running false.
Tick ==
  /\ monitor \in {"mainloop", "closed"}
  /\ scheduled > 0
  /\ \E u \in {update(Plotter, Self, exists, file)} :
       /\ IF u.call = NoCall
          THEN UNCHANGED <<parser_vars, call_vars>>
          ELSE Called(u.call)
       /\ Plotted(u)
       /\ scheduled' = scheduled - 1 + u.after
  /\ UNCHANGED <<log_vars, running, monitor, summary, main_vars, plot_vars>>

\* ScrollablePlotter.on_closing: the window is closed and the main loop
\* ends.
OnClosing ==
  /\ monitor = "mainloop"
  /\ running' = FALSE
  /\ monitor' = "closed"
  /\ UNCHANGED <<main_vars, plot_vars, log_vars, parser_vars, call_vars,
                 last_improvement_count,
                 fitness_data, drawn, scheduled, summary>>

\* main after plotter.run(): print_summary(parser.improvements).
PrintSummary ==
  /\ monitor = "closed"
  /\ summary' = print_summary(improvements)
  /\ monitor' = IF summary' = "TypeError" THEN "crashed" ELSE "done"
  /\ UNCHANGED <<main_vars, plot_vars,
                 log_vars, parser_vars, call_vars, running,
                 last_improvement_count, fitness_data, drawn, scheduled>>

\* The lines the optimizer writes while the monitor runs, and the most
\* lines of the log.
MonitorLines == {MarkerLine, ParamA, ParamB}

MaxMonitorLines == 5

\* The log when main starts: empty, or with a generation logged.
WatchedFiles == {<<>>, JoinLines(<<GenLine>>)}

InitWatch ==
  /\ exists = TRUE
  /\ file \in WatchedFiles
  /\ unflushed = <<>>
  /\ InitParser
  /\ InitMonitor
  /\ InitChosen
  /\ InitUnplotted

NextMonitor ==
  \/ \E line \in MonitorLines : AppendLine(line, MaxMonitorLines)
  \/ Run
  \/ Tick
  \/ OnClosing
  \/ PrintSummary

SpecMonitor == InitWatch /\ [][NextMonitor]_vars

(***************************************************************************)
(* main choosing the log file: with no argument, among the files of the    *)
(* log directory that match genetic_optimizer_*.txt.                       *)
(***************************************************************************)
\* The characters of file names in the order of their code points.
CodeOrder ==
  <<".", "0", "1", "2", "3", "4", "5", "6", "7", "8", "9", "_", "a", "b",
    "c", "d", "e", "f", "g", "h", "i", "j", "k", "l", "m", "n", "o", "p",
    "q", "r", "s", "t", "u", "v", "w", "x", "y", "z">>

Ord(c) == CHOOSE k \in 1..Len(CodeOrder) : CodeOrder[k] = c

\* a < b for two texts, as Python compares strings (and paths in one
\* directory): at the first difference, the shorter or the lesser character.
StrLess(a, b) ==
  \E k \in 1..(Len(b)) :
    /\ \A x \in 1..(k - 1) : x <= Len(a) /\ a[x] = b[x]
    /\ k > Len(a) \/ Ord(a[k]) < Ord(b[k])

\* sorted(paths) for a set of paths, as a sequence.
RECURSIVE sorted(_)
sorted(paths) ==
  IF paths = {} THEN <<>>
  ELSE LET last == CHOOSE p \in paths :
                     \A q \in paths : q = p \/ StrLess(q, p)
       IN  Append(sorted(paths \ {last}), last)

\* log_dir.glob("genetic_optimizer_*.txt"): the matching files, which are
\* all that the model keeps of the directory.
glob(dir) == DOMAIN dir

\* main up to the making of the parser (lines 569-586): the file chosen
\* and whether main goes on or exits.
main(args, dir) ==
  IF Len(args) > 0
  THEN [log_file |-> args[1], outcome |-> "monitoring"]
  ELSE IF Len(sorted(glob(dir))) = 0
  THEN [log_file |-> <<>>, outcome |-> "exit 1"]
  ELSE [log_file |-> sorted(glob(dir))[Len(sorted(glob(dir)))],
        outcome |-> "monitoring"]

\* genetic_optimizer_<star>.txt
LogName(star) ==
  <<"g", "e", "n", "e", "t", "i", "c", "_", "o", "p", "t", "i", "m", "i",
    "z", "e", "r", "_">> \o star \o <<".", "t", "x", "t">>

\* The names a log directory may hold: runs 1, 9 and 10.
LogNames == {LogName(<<"1">>), LogName(<<"9">>), LogName(<<"1", "0">>)}

\* The latest modification time of the model.
MaxTime == 3

\* The log directories: any of the names, each with a modification time.
LogDirs ==
  UNION {[names -> 1..MaxTime] : names \in SUBSET LogNames}

\* A file given as argument.
GivenFile == <<"r", "u", "n", ".", "t", "x", "t">>

InitMain ==
  /\ exists = FALSE
  /\ file = <<>>
  /\ unflushed = <<>>
  /\ InitParser
  /\ InitMonitor
  /\ argv \in {<<>>, <<GivenFile>>}
  /\ log_dir \in LogDirs
  /\ log_file = <<>>
  /\ outcome = "start"
  /\ InitUnplotted

Main ==
  /\ outcome = "start"
  /\ log_file' = main(argv, log_dir).log_file
  /\ outcome' = main(argv, log_dir).outcome
  /\ UNCHANGED <<argv, log_dir, log_vars, parser_vars, call_vars,
                 monitor_vars, plot_vars>>

NextMain == Main

SpecMain == InitMain /\ [][NextMain]_vars

(***************************************************************************)
(* plotter.py: the overview of all strategies and the view of one, between *)
(* which the picks of the figure's elements switch.  A file of results     *)
(* stands for the turns it holds; every file holds at least one turn, each *)
(* line an integer.                                                        *)
(***************************************************************************)
Txt == <<".", "t", "x", "t">>

\* s.startswith(prefix) and s.endswith(suffix)
startswith(s, prefix) ==
  Len(prefix) <= Len(s) /\ SubSeq(s, 1, Len(prefix)) = prefix

endswith(s, suffix) ==
  /\ Len(suffix) <= Len(s)
  /\ SubSeq(s, Len(s) - Len(suffix) + 1, Len(s)) = suffix

\* s.split(sep) for a separator of one character
RECURSIVE split(_, _)
split(s, sep) ==
  IF \A k \in 1..Len(s) : s[k] # sep THEN <<s>>
  ELSE \* k: the first separator
       LET k == CHOOSE x \in 1..Len(s) :
                  s[x] = sep /\ \A y \in 1..(x - 1) : s[y] # sep
       IN  <<SubSeq(s, 1, k - 1)>> \o split(SubSeq(s, k + 1, Len(s)), sep)

\* sep.join(parts)
RECURSIVE join(_, _)
join(sep, parts) ==
  IF Len(parts) = 0 THEN <<>>
  ELSE IF Len(parts) = 1 THEN parts[1]
  ELSE parts[1] \o <<sep>> \o join(sep, Tail(parts))

\* s.replace(old, ''): every occurrence of old removed, from the left
RECURSIVE replace(_, _)
replace(s, old) ==
  IF Len(s) = 0 THEN <<>>
  ELSE IF startswith(s, old)
  THEN replace(SubSeq(s, Len(old) + 1, Len(s)), old)
  ELSE <<s[1]>> \o replace(Tail(s), old)

\* The days of a month of a year.
DaysIn(year, month) ==
  IF month \in {4, 6, 9, 11} THEN 30
  ELSE IF month # 2 THEN 31
  ELSE IF year % 4 = 0 /\ (year % 100 # 0 \/ year % 400 = 0) THEN 29
  ELSE 28

\* datetime.strptime(date_time, "%Y%m%d_%H%M%S") for a date of eight
\* characters and a time of six, or ones that hold a character that is no
\* digit: the datetime, which its text stands for, or ValueError.
strptime(date_str, time_str) ==
  IF /\ Len(date_str) = 8
     /\ Len(time_str) = 6
     /\ \A k \in 1..8 : date_str[k] \in Digits
     /\ \A k \in 1..6 : time_str[k] \in Digits
     /\ NatOf(SubSeq(date_str, 1, 4)) >= 1
     /\ NatOf(SubSeq(date_str, 5, 6)) \in 1..12
     /\ NatOf(SubSeq(date_str, 7, 8)) \in
          1..DaysIn(NatOf(SubSeq(date_str, 1, 4)),
                    NatOf(SubSeq(date_str, 5, 6)))
     /\ NatOf(SubSeq(time_str, 1, 2)) <= 23
     /\ NatOf(SubSeq(time_str, 3, 4)) <= 59
     /\ NatOf(SubSeq(time_str, 5, 6)) <= 61
  THEN [ok |-> TRUE, v |-> date_str \o <<"_">> \o time_str]
  ELSE [ok |-> FALSE, v |-> None]

\* parse_timestamp(filename): the datetime, or None.  parts is
\* filename.split('_').
TimestampOf(parts) ==
  IF Len(parts) >= 3
  THEN strptime(parts[Len(parts) - 1], replace(parts[Len(parts)], Txt)).v
  ELSE None

parse_timestamp(filename) == TimestampOf(split(filename, "_"))

\* The strategy name load_all_strategies gives a file (lines 33-37).
NameOf(parts) ==
  IF Len(parts) >= 3
  THEN join("_", SubSeq(parts, 1, Len(parts) - 2))
  ELSE parts[1]

\* strategy_files of load_all_strategies: for each strategy name, its
\* files among those of the directory.
strategy_files(dir) ==
  [strategy_name \in
     {NameOf(split(f, "_")) : f \in {g \in dir : endswith(g, Txt)}} |->
     {f \in dir :
        endswith(f, Txt) /\ NameOf(split(f, "_")) = strategy_name}]

\* load_all_strategies(): for each strategy the latest of its files, the
\* first in the descending order of the names.
load_all_strategies(dir) ==
  [strategy_name \in DOMAIN strategy_files(dir) |->
     sorted(strategy_files(dir)[strategy_name])
       [Cardinality(strategy_files(dir)[strategy_name])]]

\* The key load_single_strategy files a file under: its timestamp, or its
\* name when it has none.
KeyOf(filename) ==
  IF parse_timestamp(filename) # None THEN parse_timestamp(filename)
  ELSE filename

\* The files load_single_strategy selects.
Selected(strategy_name, dir) ==
  {f \in dir : endswith(f, Txt) /\ startswith(f, strategy_name)}

\* load_single_strategy(strategy_name): the selected files in the order of
\* their names, each under its key, a later file replacing an earlier one
\* of the same key.
load_single_strategy(strategy_name, dir) ==
  [key \in {KeyOf(f) : f \in Selected(strategy_name, dir)} |->
     CHOOSE f \in Selected(strategy_name, dir) :
       /\ KeyOf(f) = key
       /\ \A g \in Selected(strategy_name, dir) :
            KeyOf(g) = key => (g = f \/ StrLess(g, f))]

\* The value of the back element of the view of one strategy.
Back == <<"_", "_", "b", "a", "c", "k", "_", "_">>

\* A key of strategy_data that is a datetime: a file name used as key
\* ends in .txt, the text of a datetime does not.
IsDatetime(key) == ~endswith(key, Txt)

\* update_plot(): current_strategy_lines as it leaves it.  Without data
\* the figure has no element to pick; in mode "single" the back element
\* is made after sorted(strategy_data.items()), which raises TypeError
\* when datetimes and names are both keys; the overview has one element
\* for each strategy.
update_plot(data, mode) ==
  IF DOMAIN data = {} THEN {}
  ELSE IF mode = "single"
  THEN IF \E k, l \in DOMAIN data : IsDatetime(k) /\ ~IsDatetime(l)
       THEN {}
       ELSE {Back}
  ELSE DOMAIN data

\* The globals after switch_to_single_strategy(strategy_name) and after
\* switch_to_all_strategies().
Switched(mode, name, data) ==
  [current_mode |-> mode, selected_strategy |-> name,
   strategy_data |-> data,
   current_strategy_lines |-> update_plot(data, mode)]

switch_to_single_strategy(strategy_name, dir) ==
  Switched("single", strategy_name,
           load_single_strategy(strategy_name, dir))

switch_to_all_strategies(dir) ==
  Switched("all", None, load_all_strategies(dir))

\* on_pick(event) for an element of value val.
on_pick(val, dir) ==
  IF val = Back THEN switch_to_all_strategies(dir)
  ELSE switch_to_single_strategy(val, dir)

\* <name>_<date>_<time><ext>
ResultName(name, date, time, ext) ==
  name \o <<"_">> \o date \o <<"_">> \o time \o ext

Greedy == <<"g", "r", "e", "e", "d", "y">>

GreedyV2 == Greedy \o <<"_", "v", "2">>

Random == <<"r", "a", "n", "d", "o", "m">>

Noon == <<"1", "2", "0", "0", "0", "0">>

Jan(day) == <<"2", "0", "2", "4", "0", "1", "0", day>>

\* No date: its month is 13.
NoDate == <<"2", "0", "2", "4", "1", "3", "0", "1">>

\* The files a directory of results may hold: runs of the strategies
\* greedy, greedy_v2 and random, one of them with a date that is none, a
\* file with no timestamp, and a file that is no .txt.
ResultNames ==
  {ResultName(Greedy, Jan("1"), Noon, Txt),
   ResultName(Greedy, Jan("2"), Noon, Txt),
   ResultName(GreedyV2, Jan("1"), Noon, Txt),
   ResultName(GreedyV2, Jan("3"), Noon, Txt),
   ResultName(Random, Jan("1"), Noon, Txt),
   ResultName(Random, NoDate, Noon, Txt),
   <<"n", "o", "t", "e", "s">> \o Txt,
   ResultName(Greedy, Jan("1"), Noon, <<".", "c", "s", "v">>)}

\* plotter.py has started (lines 290-293): the overview is drawn.
InitPicker ==
  /\ exists = FALSE
  /\ file = <<>>
  /\ unflushed = <<>>
  /\ InitParser
  /\ InitMonitor
  /\ InitChosen
  /\ results_dir \in SUBSET ResultNames
  /\ current_mode = "all"
  /\ selected_strategy = None
  /\ strategy_data = load_all_strategies(results_dir)
  /\ current_strategy_lines = update_plot(strategy_data, "all")

\* An element of the figure is picked.
Pick ==
  /\ \E val \in current_strategy_lines :
       \E after \in {on_pick(val, results_dir)} :
         /\ current_mode' = after.current_mode
         /\ selected_strategy' = after.selected_strategy
         /\ strategy_data' = after.strategy_data
         /\ current_strategy_lines' = after.current_strategy_lines
  /\ UNCHANGED <<results_dir, log_vars, parser_vars, call_vars,
                 monitor_vars, main_vars>>

NextPicker == Pick

SpecPicker == InitPicker /\ [][NextPicker]_vars

(***************************************************************************)
(* Properties                                                              *)
(***************************************************************************)
\* The records a new parser holds after one call on the text.
OneCall(text) == parse_incremental(NewParser, TRUE, text).self.improvements

\* C1: once the whole file has been consumed, whether in one call or in a
\* call on its first part and a call after the rest was appended, the
\* parser holds the records one call of a new parser on the whole file
\* gives.
C1_TwoCallsAsOneCall ==
  (unflushed = <<>> /\ file_position = Len(file) /\ Len(file) > 0)
    => improvements = OneCall(file)

\* The text the parser has consumed, and its pieces between the newlines.
Consumed == SubSeq(file, 1, file_position)

\* The newline-terminated lines of a text.
CompleteLines(text) ==
  LET pieces == Split(text) IN SubSeq(pieces, 1, Len(pieces) - 1)

\* The unterminated tail of a text.
UnterminatedTail(text) ==
  LET pieces == Split(text) IN pieces[Len(pieces)]

\* The sequence s without its elements at the indices of the set drop.
Without(s, drop) ==
  LET keep == (1..Len(s)) \ drop
  IN  [k \in 1..Cardinality(keep) |->
         s[CHOOSE j \in keep : Cardinality({x \in keep : x <= j}) = k]]

\* A step that is a call of parse_incremental on a file that is there.
CallStep == exists /\ UNCHANGED log_vars

IsPrefix(s, t) == Len(s) <= Len(t) /\ SubSeq(t, 1, Len(s)) = s

\* C3: every step, of parse_incremental, of the plotter's update, of
\* print_summary or of anything else, leaves the records held before it as
\* a prefix of the records held after it, each with its fields and params
\* as they were.
C3_AppendOnly == [][IsPrefix(improvements, improvements')]_vars

\* Two records are held, the second appended by a later call than the
\* first; the plotter has drawn them and the summary has been printed.
C3_Witness ==
  /\ Len(improvements) >= 2
  /\ origin[1].last < origin[2].marker
  /\ drawn >= 2
  /\ summary = "printed"

(***************************************************************************)
(* What the lines of the model's logs say, read off the log format by hand *)
(* and not through the patterns of the parser.                             *)
(***************************************************************************)
\* The lines of the log, without the unterminated tail.
FileLines == CompleteLines(file)

MarkerLines == {MarkerLine, BothLine, IndentedMarker}

\* The six values a generation line states.
Stated(line) ==
  CASE line = GenLine ->
         [generation |-> 5, fitness |-> <<15, 1>>, mean |-> <<2, 0>>,
          variance |-> <<3, 0>>, p95 |-> None, max |-> None]
    [] line = GenLineTail ->
         [generation |-> 7, fitness |-> <<4, 0>>, mean |-> <<5, 0>>,
          variance |-> <<6, 0>>, p95 |-> <<8, 0>>, max |-> <<9, 0>>]
    [] line = BothLine ->
         [generation |-> 6, fitness |-> <<2, 0>>, mean |-> <<3, 0>>,
          variance |-> <<4, 0>>, p95 |-> None, max |-> None]
    [] line = IndentedGen ->
         [generation |-> 8, fitness |-> <<1, 0>>, mean |-> <<2, 0>>,
          variance |-> <<3, 0>>, p95 |-> None, max |-> None]

GenLines == {GenLine, GenLineTail, BothLine, IndentedGen}

\* The values before any generation line.
Unstated ==
  [generation |-> 0, fitness |-> None, mean |-> None, variance |-> None,
   p95 |-> None, max |-> None]

\* The name and the value an assignment line gives.
Assignment(line) ==
  CASE line = ParamA -> [name |-> <<"a">>, value |-> <<1, 0>>]
    [] line = ParamB -> [name |-> <<"b">>, value |-> <<0 - 25, 1>>]
    [] line = TabParam -> [name |-> <<"c">>, value |-> <<3, 0>>]

ParamLines == {ParamA, ParamB, TabParam}

\* The greatest element of a set of numbers.
Greatest(ps) == CHOOSE x \in ps : \A y \in ps : y <= x

\* The values stated by the last generation line among the first m of the
\* lines without those at the indices of the set but.
StatedBy(lines, m, but) ==
  LET gens == {g \in (1..m) \ but : lines[g] \in GenLines}
  IN  IF gens = {} THEN Unstated ELSE Stated(lines[Greatest(gens)])

\* The generation and the five metrics of a record.
Metrics(r) ==
  [generation |-> r.generation, fitness |-> r.fitness, mean |-> r.mean,
   variance |-> r.variance, p95 |-> r.p95, max |-> r.max]

\* A line that ends the scan for assignments: no assignment, not blank, no
\* space in front.
EndsScan(line) ==
  /\ line \notin ParamLines
  /\ NonBlank(line)
  /\ ~StartsWithSpace(line)

\* The assignment lines the scan for the marker at line m captures when
\* the lines up to line last are there: those among the ScanLimit - 1 lines
\* after the marker with no line before them that ends the scan.
Captured(lines, m, last) ==
  {j \in (m + 1)..(m + ScanLimit - 1) :
     /\ j <= last
     /\ lines[j] \in ParamLines
     /\ \A x \in (m + 1)..(j - 1) : ~EndsScan(lines[x])}

\* The params they give: for each name the value of its last assignment.
CapturedParams(lines, m, last) ==
  LET at == Captured(lines, m, last)
  IN  [n \in {Assignment(lines[j]).name : j \in at} |->
         Assignment(lines[
           Greatest({j \in at : Assignment(lines[j]).name = n})]).value]

\* C4: the records are, in order, one for each marker handled whose scan
\* captured an assignment and none besides; each holds the values stated by
\* the last generation line at or before its marker (generation 0 and
\* nothing else when there is none) and the params its scan captured.
C4_OneRecordPerMarker ==
  /\ Len(origin) = Len(improvements)
  /\ \A k \in 1..Len(improvements) :
       /\ FileLines[origin[k].marker] \in MarkerLines
       /\ k > 1 => origin[k - 1].marker < origin[k].marker
       /\ Metrics(improvements[k])
            = StatedBy(FileLines, origin[k].marker, {})
       /\ improvements[k].params
            = CapturedParams(FileLines, origin[k].marker, origin[k].last)
       /\ DOMAIN improvements[k].params # {}
  /\ \A k \in 1..Len(scanned) :
       Captured(FileLines, scanned[k].marker, scanned[k].last) # {}
         => \E r \in 1..Len(origin) : origin[r] = scanned[k]

\* The log is a generation line, a marker and two assignments, and the one
\* record has generation 5 and the two params.
C4_Witness ==
  /\ file = ExampleFile
  /\ Len(improvements) = 1
  /\ improvements[1].generation = 5
  /\ improvements[1].fitness = <<15, 1>>
  /\ improvements[1].p95 = None
  /\ DOMAIN improvements[1].params = {<<"a">>, <<"b">>}

\* The rolling fields of the parser.
Rolling ==
  [generation |-> last_gen, fitness |-> last_fitness, mean |-> last_mean,
   variance |-> last_variance, p95 |-> last_p95, max |-> last_max]

\* The number of lines of the log the parser has tested.
TestedLines == Len(tested) - Cardinality(tails)

\* The indices in scanned of the markers, among those of the set of lines
\* among, whose scan captured no assignment.
Bare(among) ==
  {k \in 1..Len(scanned) :
     /\ FileLines[scanned[k].marker] \in among
     /\ Captured(FileLines, scanned[k].marker, scanned[k].last) = {}}

\* For the markers of Bare(among): no record is theirs, and the rolling
\* fields, and the metrics of every record of a later marker, are those
\* the log states without the marker's line.
AsIfAbsent(among) ==
  \A k \in Bare(among) :
    /\ \A r \in 1..Len(origin) : origin[r].marker # scanned[k].marker
    /\ Rolling = StatedBy(FileLines, TestedLines, {scanned[k].marker})
    /\ \A r \in 1..Len(origin) :
         origin[r].marker > scanned[k].marker
           => Metrics(improvements[r])
                = StatedBy(FileLines, origin[r].marker,
                           {scanned[k].marker})

\* C5 as stated: a marker whose scan captures no assignment appends no
\* record and leaves the rolling fields as they were, as if its line were
\* absent, whatever the line.
C5_BareMarkerAsIfAbsent == AsIfAbsent(MarkerLines)

\* C5: a marker whose scan captures no assignment appends no record and,
\* unless its line is a generation line too, leaves the six rolling fields
\* as they were: they, and the metrics of the records of later markers, are
\* what they would be without the line.
C5_BareMarkerLeavesRolling == AsIfAbsent(MarkerLines \ GenLines)

\* A marker that is no generation line has captured nothing, a generation
\* line stands before it and a later marker has a record.
C5_Witness ==
  \E k \in Bare(MarkerLines \ GenLines) :
    /\ \E g \in 1..scanned[k].marker : FileLines[g] \in GenLines
    /\ \E r \in 1..Len(origin) : origin[r].marker > scanned[k].marker

\* C6: every name among a record's params is assigned on one of the
\* ScanLimit - 1 = 19 lines after the record's marker.
C6_ScanWindow ==
  \A k \in 1..Len(improvements) :
    \A n \in DOMAIN improvements[k].params :
      \E j \in (origin[k].marker + 1)..(origin[k].marker + ScanLimit - 1) :
        /\ j <= Len(FileLines)
        /\ FileLines[j] \in ParamLines
        /\ Assignment(FileLines[j]).name = n

\* A marker is followed by 19 assignments of a and then, on line 20 after
\* it, the only assignment of b; its record has a alone.
C6_Witness ==
  /\ Len(improvements) = 1
  /\ Len(FileLines) >= origin[1].marker + ScanLimit
  /\ \A j \in (origin[1].marker + 1)..(origin[1].marker + ScanLimit - 1) :
       FileLines[j] = ParamA
  /\ FileLines[origin[1].marker + ScanLimit] = ParamB
  /\ origin[1].last >= origin[1].marker + ScanLimit
  /\ DOMAIN improvements[1].params = {<<"a">>}

\* A line is indented: it starts with a space; or, read more widely, with
\* any whitespace.
SpaceIndented(line) == Len(line) > 0 /\ line[1] = " "

WhitespaceIndented(line) == Len(line) > 0 /\ line[1] \in Whitespace

\* The scan as C7 states it, Indented saying which lines are indented: for
\* every marker handled, the names its record holds (none when it has no
\* record) are those of the assignment lines in its window that are
\* indented and have no line before them that is neither blank nor
\* indented.
ScanStopsAtUnindented(Indented(_)) ==
  \A k \in 1..Len(scanned) :
    LET m == scanned[k].marker
        held == UNION {DOMAIN improvements[r].params :
                         r \in {x \in 1..Len(origin) : origin[x].marker = m}}
        due == {j \in (m + 1)..(m + ScanLimit - 1) :
                  /\ j <= scanned[k].last
                  /\ FileLines[j] \in ParamLines
                  /\ Indented(FileLines[j])
                  /\ \A x \in (m + 1)..(j - 1) :
                       ~NonBlank(FileLines[x]) \/ Indented(FileLines[x])}
    IN  held = {Assignment(FileLines[j]).name : j \in due}

\* C7 as stated, with either reading of "indented": the scan stops at the
\* first line that is not blank and not indented, skips blank lines and
\* indented lines that are no assignments, and captures an assignment only
\* from an indented line.
C7_ScanStopsAtUnindented ==
  \/ ScanStopsAtUnindented(SpaceIndented)
  \/ ScanStopsAtUnindented(WhitespaceIndented)

\* C8: the rolling fields are those stated by the last generation line
\* among the lines tested, all six of them, p95 and max being None when
\* that line has none; with no generation line they are as in a new parser.
C8_RollingFromLastGenLine ==
  Rolling = StatedBy(FileLines, TestedLines, {})

\* A generation line with p95 and max, one without, and a marker have been
\* tested: p95 and max are None again.
C8_Witness ==
  /\ TestedLines = 3
  /\ FileLines[1] = GenLineTail
  /\ FileLines[2] = GenLine
  /\ FileLines[3] = MarkerLine
  /\ last_gen = 5
  /\ last_p95 = None
  /\ last_max = None

\* A step that is a call of parse_incremental, if it is any step at all.
IsCall == UNCHANGED log_vars

\* C9: a call returns True if it has made improvements longer and False if
\* it has not, also when it has only updated the rolling fields or only
\* kept a partial line.
C9_ReturnsWhetherAppended ==
  [][IsCall => /\ returned' \in {"True", "False"}
               /\ returned' = "True"
                    <=> Len(improvements') > Len(improvements)]_vars

\* A call has appended the first record and returned True.
C9_Witness ==
  /\ returned = "True"
  /\ Len(improvements) = 1
  /\ file_position = Len(file)
  /\ tested = <<MarkerLine, ParamA, <<>>>>

\* There is nothing for a call to read: there is no file, or it is empty,
\* or it ends at the saved offset.
NothingNew == ~exists \/ Len(file) = 0 \/ file_position = Len(file)

\* C10: a call that finds no file, an empty file or nothing after the
\* saved offset returns False and leaves file_position, partial_line, the
\* rolling fields and improvements as they were, so that the calls after
\* it go on from the state they would have had without it.
C10_NoOpCall ==
  [][(IsCall /\ NothingNew)
       => (returned' = "False" /\ UNCHANGED parser_vars)]_vars

\* A call has found nothing after the record's lines: it has returned
\* False where the call before it returned True, and the record is there.
C10_Witness ==
  /\ returned = "False"
  /\ Len(improvements) = 1
  /\ Len(file) > 0
  /\ file_position = Len(file)

\* What the log of the choice c of numbers states: the rolling fields and
\* the one record.
StatedRolling(c) ==
  [generation |-> 5, fitness |-> Value(c.fit), mean |-> Value(c.mean),
   variance |-> Value(c.var),
   p95 |-> IF Len(c.tail) = 0 THEN None ELSE Value(c.tail[1]),
   max |-> IF Len(c.tail) = 0 THEN None ELSE Value(c.tail[2])]

StatedRecord(c) ==
  [generation |-> 5, fitness |-> Value(c.fit), mean |-> Value(c.mean),
   variance |-> Value(c.var),
   p95 |-> IF Len(c.tail) = 0 THEN None ELSE Value(c.tail[1]),
   max |-> IF Len(c.tail) = 0 THEN None ELSE Value(c.tail[2]),
   params |-> SetItem(EmptyDict, <<"b">>, Value(c.val))]

\* The log is that of the choice c and a call has read it to its end.
HasRead(c) ==
  /\ file = NumberFile(c)
  /\ file_position = Len(file)

\* C11 as stated: a generation line in the documented shape with a negative
\* fitness, mean or variance is recognised and sets the rolling fields,
\* the negative value among them, as a negative parameter value is
\* captured.
C11_NegativeMetricsRecognised ==
  \A c \in NegativeChoices :
    HasRead(c) => /\ Rolling = StatedRolling(c)
                  /\ improvements = <<StatedRecord(c)>>

\* The choices c and d state the same numbers: they differ in decimal
\* separators at most.
SameNumbers(c, d) ==
  /\ StatedRolling(c) = StatedRolling(d)
  /\ StatedRecord(c) = StatedRecord(d)

\* A new parser after one call on the text.
ReadWhole(text) == parse_incremental(NewParser, TRUE, text).self

\* C12: a log whose numbers are written with comma or period, in any mix,
\* gives the rolling fields and the record that it states, which are those
\* of every log that differs from it in decimal separators only; so with
\* "mean=2,5" right before ", var=" too.
C12_SeparatorsInterchangeable ==
  \A c \in SeparatorChoices :
    HasRead(c) =>
      /\ Rolling = StatedRolling(c)
      /\ improvements = <<StatedRecord(c)>>
      /\ \A d \in SeparatorChoices :
           SameNumbers(c, d) =>
             \A other \in {ReadWhole(NumberFile(d))} :
               /\ other.improvements = improvements
               /\ other.last_fitness = last_fitness
               /\ other.last_mean = last_mean
               /\ other.last_variance = last_variance
               /\ other.last_p95 = last_p95
               /\ other.last_max = last_max

\* The log with a comma in every number, p95 and max among them, has been
\* read: mean is 2.5 and b is -2.5.
C12_Witness ==
  /\ \E c \in SeparatorChoices :
       /\ HasRead(c)
       /\ Len(c.tail) = 2
       /\ \A n \in {c.fit, c.mean, c.var, c.tail[1], c.val} : n.sep = ","
  /\ Len(improvements) = 1
  /\ improvements[1].mean = <<25, 1>>
  /\ improvements[1].p95 = <<85, 1>>
  /\ improvements[1].params[<<"b">>] = <<0 - 25, 1>>

\* The complete lines a call now would get: those of partial_line and the
\* text from file_position on.
ChunkLines ==
  CompleteLines(partial_line \o SubSeq(file, file_position + 1, Len(file)))

\* The scan for the marker at line m of the lines meets an assignment whose
\* value does not convert.
RaisingScan(lines, m) ==
  \E j \in (m + 1)..(m + ScanLimit - 1) :
    /\ j <= Len(lines)
    /\ lines[j] \in BadParams
    /\ \A x \in (m + 1)..(j - 1) : ~EndsScan(lines[x])

\* The lines at which the loop meets a number that does not convert: a
\* generation line with a bad generation, a marker with a raising scan.
Raising(lines) ==
  {i \in 1..Len(lines) :
     \/ lines[i] = BadGen
     \/ lines[i] \in MarkerLines /\ RaisingScan(lines, i)}

\* C13: a call whose lines hold a matching line with a number that does
\* not convert raises ValueError to its caller at the first of them, and
\* tests no line after the one it raised at; other calls do not raise.
C13_ConversionErrorPropagates ==
  [][IsCall =>
       IF Raising(ChunkLines) = {}
       THEN /\ returned' # "ValueError"
            /\ \E n \in 0..1 : Len(tested') = Len(tested) + Len(ChunkLines) + n
       ELSE /\ returned' = "ValueError"
            /\ tested' = tested \o SubSeq(ChunkLines, 1,
                                           Least(Raising(ChunkLines)))]_vars

\* The call on a marker, " a = -" and " a = 1" has raised: it has tested
\* the marker and nothing after it, and there is no record.
C13_Witness ==
  /\ file = JoinLines(<<MarkerLine, BadDash, ParamA>>)
  /\ returned = "ValueError"
  /\ tested = <<MarkerLine>>
  /\ improvements = <<>>

\* C14 as stated: started without an argument, main monitors the matching
\* file with the latest modification time, whatever the names and times;
\* with no matching file it exits with failure and makes no parser.
C14_LatestModifiedChosen ==
  (outcome # "start" /\ Len(argv) = 0) =>
    IF glob(log_dir) = {}
    THEN outcome = "exit 1" /\ log_file = <<>>
    ELSE /\ outcome = "monitoring"
         /\ log_file \in glob(log_dir)
         /\ \A f \in glob(log_dir) : log_dir[f] <= log_dir[log_file]

\* A step in which the main loop runs a pending call of update, if it is
\* any step at all.
IsTick ==
  /\ monitor \in {"mainloop", "closed"}
  /\ UNCHANGED <<log_vars, running, monitor, summary>>

\* C15 as stated: from run on, every call of update that starts while
\* running is true ends with one further call scheduled, whatever records
\* the parser holds; after on_closing no call of update calls
\* parse_incremental or schedules another.
C15_UpdateKeepsRescheduling ==
  [][/\ (monitor = "new" /\ monitor' # "new")
          => (monitor' = "mainloop" /\ scheduled' = 1)
     /\ (IsTick /\ running) => scheduled' = scheduled
     /\ (IsTick /\ ~running)
          => (scheduled' < scheduled /\ UNCHANGED <<parser_vars, call_vars>>)
    ]_vars

\* C16: the lines tested are the complete lines of the log, each once and
\* in order; each of them is tested for a generation and for a marker, also
\* when the scan of an earlier marker has examined it; and the record of a
\* marker line that is a generation line too holds what that line states.
C16_OnePassBothTests ==
  /\ Without(tested, tails) = SubSeq(FileLines, 1, TestedLines)
  /\ {scanned[k].marker : k \in 1..Len(scanned)}
       = {i \in 1..TestedLines : FileLines[i] \in MarkerLines}
  /\ Rolling = StatedBy(FileLines, TestedLines, {})
  /\ \A k \in 1..Len(improvements) :
       FileLines[origin[k].marker] \in GenLines
         => Metrics(improvements[k]) = Stated(FileLines[origin[k].marker])

\* The log PassFile has been read: the marker that is the generation line
\* of generation 6 has a record of generation 6 with a and b, and the
\* indented marker in its window has a record too, of the generation 8
\* stated inside that window, with b.
C16_Witness ==
  /\ file = PassFile
  /\ Len(improvements) = 2
  /\ origin[1].marker = 2
  /\ improvements[1].generation = 6
  /\ DOMAIN improvements[1].params = {<<"a">>, <<"b">>}
  /\ origin[2].marker = 5
  /\ improvements[2].generation = 8
  /\ DOMAIN improvements[2].params = {<<"b">>}

\* C17: while the file is no longer than the saved offset a call returns
\* False and changes nothing, so that nothing written below the offset is
\* tested; once the file is longer, a call reads from the offset to the
\* end and tests the lines of partial_line followed by that text.
C17_TruncatedFileIgnored ==
  [][IsCall =>
       IF Len(file) <= file_position
       THEN /\ returned' = "False"
            /\ UNCHANGED parser_vars
            /\ tested' = tested
       ELSE /\ file_position' = Len(file)
            /\ tested' \in {tested \o ChunkLines,
                            tested \o ChunkLines \o <<<<>>>>}
            /\ partial_line' =
                 UnterminatedTail(
                   partial_line \o SubSeq(file, file_position + 1, Len(file)))
    ]_vars

\* The log was replaced by "x" and has grown past the offset saved before:
\* the parser, which had tested the marker of the old log, has then tested
\* a line made of the begun line it had kept and of text of the new log
\* from the offset on, and no line of the new log before it.
C17_Witness ==
  /\ Len(file) > 0
  /\ FileLines[1] = OtherLine
  /\ file_position = Len(file)
  /\ Len(tested) >= 4
  /\ tested[1] = MarkerLine
  /\ tested[2] = ParamA
  /\ Len(tested[3]) > Len(Begun)
  /\ SubSeq(tested[3], 1, Len(Begun)) = Begun
  /\ \A k \in 1..Len(tested) : tested[k] # OtherLine

\* The markers among the lines before line i whose scan captures an
\* assignment, in order.
KeptMarkers(lines, i) ==
  {m \in 1..(i - 1) :
     /\ lines[m] \in MarkerLines
     /\ Captured(lines, m, Len(lines)) # {}}

\* The k-th least element of a set of numbers.
Kth(ps, k) == CHOOSE x \in ps : Cardinality({y \in ps : y <= x}) = k

\* C18: a call that raises leaves file_position at the end of what it read
\* and partial_line at the unterminated tail of it; it keeps the records
\* of the markers before the line it raised at and the rolling fields of
\* the generation lines tested; and no call tests a line that is not among
\* those it has read itself, so the lines after the one that raised are
\* never tested.
C18_NoRollbackAfterRaise ==
  [][IsCall =>
       /\ \E n \in 0..(Len(ChunkLines) + 1) :
            tested' = tested \o SubSeq(ChunkLines \o <<<<>>>>, 1, n)
       /\ returned' = "ValueError" =>
            /\ file_position' = Len(file)
            /\ partial_line' =
                 UnterminatedTail(
                   partial_line \o SubSeq(file, file_position + 1, Len(file)))
            /\ Rolling' = StatedBy(tested', Len(tested'), {})
            /\ \A at \in {Len(tested') - Len(tested)} :
                 \A kept \in {KeptMarkers(ChunkLines, at)} :
                   /\ Len(improvements') = Len(improvements) + Cardinality(kept)
                   /\ SubSeq(improvements', 1, Len(improvements))
                        = improvements
                   /\ \A k \in 1..Cardinality(kept) :
                        improvements'[Len(improvements) + k].params
                          = CapturedParams(ChunkLines, Kth(kept, k),
                                           Len(ChunkLines))
    ]_vars

\* A call has raised at the second marker of a log, at " a = -", and a
\* later call has read the line begun before and ended after: the record
\* of the first marker is there, the generation is the 5 stated before the
\* bad line and not the 7 stated after it, whose line was never tested.
C18_Witness ==
  /\ file = JoinLines(<<GenLine, MarkerLine, ParamA, MarkerLine, BadDash,
                        GenLineTail, ParamB>>)
  /\ file_position = Len(file)
  /\ returned = "False"
  /\ Len(improvements) = 1
  /\ improvements[1].generation = 5
  /\ last_gen = 5
  /\ tested = <<GenLine, MarkerLine, ParamA, MarkerLine, ParamB, <<>>>>

\* The files whose turns the figure shows.
Shown == {strategy_data[key] : key \in DOMAIN strategy_data}

\* C19: after any picks, the view of one strategy S shows exactly the files
\* that load_all_strategies groups under the name S (the file name less its
\* last two parts), also when one strategy name begins another, and
\* current_mode is "single" exactly when selected_strategy is set.
C19_PickLoadsGroupedFiles ==
  /\ current_mode = "single" <=> selected_strategy # None
  /\ current_mode = "single" =>
       /\ selected_strategy \in DOMAIN strategy_files(results_dir)
       /\ Shown = strategy_files(results_dir)[selected_strategy]

\* What holds of the two globals alone.
ModeMatchesSelection ==
  /\ current_mode \in {"all", "single"}
  /\ current_mode = "single" <=> selected_strategy # None

\* What holds where no strategy name of the directory begins a file of
\* another strategy and no two selected files share a timestamp.
GroupedWhereNoNameBeginsAnother ==
  (/\ current_mode = "single"
   /\ \A f \in results_dir :
        endswith(f, Txt) /\ startswith(f, selected_strategy)
          => NameOf(split(f, "_")) = selected_strategy)
    => Shown = strategy_files(results_dir)[selected_strategy]

=============================================================================
